---- MODULE Spec2Model ----
(***************************************************************************)
(* GeoClipMap::generate and GeoClipMap::_create_mesh (src/geoclipmap.cpp). *)
(*                                                                         *)
(* Positions are kept exactly, in half units: the float coordinates the    *)
(* code computes are all multiples of 0.5 (p_size * 0.5f, x + 0.5f), so a  *)
(* Vector3 (a, b, c) is the record [x |-> 2a, y |-> 2b, z |-> 2c].         *)
(* Packed arrays are functions over 0 .. size-1.                           *)
(***************************************************************************)
EXTENDS Integers, Sequences, FiniteSets, TLC

\* Bounds of the exploration.
MaxSize == 3
MaxLevels == 2
MaxCalls == 2

VARIABLES
    pc,         \* position of the running call ("idle" between calls)
    p_size,     \* generate's argument
    p_levels,   \* generate's argument
    n,          \* write cursor (line 53)
    x, y,       \* loop counters
    m,          \* apex counter of the stitch loops (line 105)
    vertices,   \* PackedVector3Array (line 70)
    indices,    \* PackedInt32Array (line 72)
    vwrites,    \* how many times each slot of vertices was assigned
    iwrites,    \* how many times each slot of indices was assigned
    offset,     \* line 75
    aabb,       \* line 52 / 133
    arrays,     \* _create_mesh's surface arrays (line 13)
    mesh,       \* _create_mesh's RID (line 29)
    tile_mesh,  \* line 51
    rs_next,    \* the rendering server's next unused RID
    rs_log,     \* calls received by the rendering server, in order
    calls       \* finished generate calls: arguments and returned Vector<RID>

vars == <<pc, p_size, p_levels, n, x, y, m, vertices, indices, vwrites,
          iwrites, offset, aabb, arrays, mesh, tile_mesh, rs_next, rs_log, calls>>

locals == <<p_size, p_levels, n, x, y, m, vertices, indices, vwrites,
            iwrites, offset, aabb, arrays, mesh, tile_mesh>>

rs == <<rs_next, rs_log>>

----------------------------------------------------------------------------
\* Value types

\* Vector3(a, b, c), the arguments given in half units.
Vector3(a, b, c) == [x |-> a, y |-> b, z |-> c]

\* Vector3 operator+
VAdd(u, v) == [x |-> u.x + v.x, y |-> u.y + v.y, z |-> u.z + v.z]

\* AABB(position, size)
AABB(p, s) == [position |-> p, size |-> s]

\* A default-constructed RID is the null RID.
NullRID == 0

\* resize(len): len default-constructed elements.
Resized(len, v) == [i \in 0 .. len - 1 |-> v]

\* Row-major index function over the interior grid.
_patch_2d(px, py, width) == py * width + px

\* vertices.resize(...) argument, line 71
VertexCount(S) == (S + 3) * (S + 3) + (S + 1) * 2 - 1

\* Mutant: the interior cells are not counted.
IndexCount_border(S) == (S + 1) * 9 * 2

\* indices.resize(...) argument, line 73
IndexCount(S) == (S + 1) * (S + 1) * 6 + (S + 1) * 9 * 2

\* Vector3(-p_size * 0.5f - 1.0f, 0, -p_size * 0.5f - 1.0f), line 75
Offset(S) == Vector3(-S - 2, 0, -S - 2)

\* Mutant: the apex counter starts one slot late.
ApexStart_late(S) == (S + 3) * (S + 3)

\* int m = (p_size + 3) * (p_size + 3) - 1, line 105
ApexStart(S) == (S + 3) * (S + 3) - 1

\* buf[n++] = vals[1]; buf[n++] = vals[2]; ...
InRange(buf, at, k) == at >= 0 /\ at + k <= Cardinality(DOMAIN buf)

WriteSeq(buf, at, vals) ==
    [i \in DOMAIN buf |->
        IF i >= at /\ i < at + Len(vals) THEN vals[i - at + 1] ELSE buf[i]]

CountSeq(cnt, at, k) ==
    [i \in DOMAIN cnt |-> IF i >= at /\ i < at + k THEN cnt[i] + 1 ELSE cnt[i]]

----------------------------------------------------------------------------
Init ==
    /\ pc = "idle"
    /\ p_size = 0 /\ p_levels = 0
    /\ n = 0 /\ x = 0 /\ y = 0 /\ m = 0
    /\ vertices = <<>> /\ indices = <<>>
    /\ vwrites = <<>> /\ iwrites = <<>>
    /\ offset = Vector3(0, 0, 0)
    /\ aabb = AABB(Vector3(0, 0, 0), Vector3(0, 0, 0))
    /\ arrays = <<>>
    /\ mesh = NullRID /\ tile_mesh = NullRID
    /\ rs_next = 1
    /\ rs_log = <<>>
    /\ calls = <<>>

\* generate(p_size, p_levels): entry up to n = 0 on line 76.
generate ==
    /\ pc = "idle"
    /\ Len(calls) < MaxCalls
    /\ \E S \in 0 .. MaxSize, L \in 1 .. MaxLevels :
        /\ p_size' = S
        /\ p_levels' = L
        /\ vertices' = Resized(VertexCount(S), Vector3(0, 0, 0))
        /\ vwrites' = Resized(VertexCount(S), 0)
        /\ indices' = Resized(IndexCount(S), 0)
        /\ iwrites' = Resized(IndexCount(S), 0)
        /\ offset' = Offset(S)
    /\ tile_mesh' = NullRID
    /\ aabb' = AABB(Vector3(0, 0, 0), Vector3(0, 0, 0))
    /\ n' = 0 /\ x' = 0 /\ y' = 0 /\ m' = 0
    /\ pc' = "grid"
    /\ UNCHANGED <<arrays, mesh, rs, calls>>

\* vertices[n++] = v
PutVertex(v) ==
    /\ vertices' = WriteSeq(vertices, n, <<v>>)
    /\ vwrites' = CountSeq(vwrites, n, 1)
    /\ n' = n + 1

\* The body of an index loop: indices[n++] = vals[1]; indices[n++] = vals[2]; ...
PutIndices(vals) ==
    /\ indices' = WriteSeq(indices, n, vals)
    /\ iwrites' = CountSeq(iwrites, n, Len(vals))
    /\ n' = n + Len(vals)

\* operator[] with an index outside the array: the call does not continue.
Fault ==
    /\ pc' = "fault"
    /\ UNCHANGED <<n, x, y, m, vertices, vwrites, indices, iwrites>>

\* Mutant: the corner (p_size + 2, p_size + 2) is not skipped.
GridVertex_corner ==
    /\ pc = "grid"
    /\ y < p_size + 3 /\ x < p_size + 3
    /\ IF InRange(vertices, n, 1)
       THEN /\ PutVertex(VAdd(Vector3(2 * x, 0, 2 * y), offset))
            /\ x' = x + 1
            /\ UNCHANGED <<pc, y, m, indices, iwrites>>
       ELSE Fault
    /\ UNCHANGED <<p_size, p_levels, offset, aabb,
                   arrays, mesh, tile_mesh, rs, calls>>

\* Lines 78-85, one pass of the inner loop body.
GridVertex ==
    /\ pc = "grid"
    /\ y < p_size + 3 /\ x < p_size + 3
    /\ ~(x = p_size + 2 /\ y = p_size + 2)
    /\ IF InRange(vertices, n, 1)
       THEN /\ PutVertex(VAdd(Vector3(2 * x, 0, 2 * y), offset))
            /\ x' = x + 1
            /\ UNCHANGED <<pc, y, m, indices, iwrites>>
       ELSE Fault
    /\ UNCHANGED <<p_size, p_levels, offset, aabb,
                   arrays, mesh, tile_mesh, rs, calls>>

\* Lines 79-82: the inner loop ends (x reached its bound, or the break).
GridRowEnd ==
    /\ pc = "grid"
    /\ y < p_size + 3
    /\ \/ x >= p_size + 3
       \/ (x = p_size + 2 /\ y = p_size + 2)
    /\ y' = y + 1 /\ x' = 0
    /\ UNCHANGED <<pc, p_size, p_levels, n, m, vertices, indices, vwrites,
                   iwrites, offset, aabb, arrays, mesh, tile_mesh, rs, calls>>

\* Line 78: the outer loop ends.
GridEnd ==
    /\ pc = "grid"
    /\ y >= p_size + 3
    /\ pc' = "vstrip" /\ y' = 0 /\ x' = 0
    /\ UNCHANGED <<p_size, p_levels, n, m, vertices, indices, vwrites,
                   iwrites, offset, aabb, arrays, mesh, tile_mesh, rs, calls>>

\* Lines 86-88
VStripVertex ==
    /\ pc = "vstrip"
    /\ y < p_size + 1
    /\ IF InRange(vertices, n, 1)
       THEN /\ PutVertex(VAdd(Vector3(2 * (p_size + 2), 0, 2 * y + 1), offset))
            /\ y' = y + 1
            /\ UNCHANGED <<pc, x, m, indices, iwrites>>
       ELSE Fault
    /\ UNCHANGED <<p_size, p_levels, offset, aabb,
                   arrays, mesh, tile_mesh, rs, calls>>

VStripEnd ==
    /\ pc = "vstrip"
    /\ y >= p_size + 1
    /\ pc' = "hstrip" /\ x' = 0 /\ y' = 0
    /\ UNCHANGED <<p_size, p_levels, n, m, vertices, indices, vwrites,
                   iwrites, offset, aabb, arrays, mesh, tile_mesh, rs, calls>>

\* Lines 89-91
HStripVertex ==
    /\ pc = "hstrip"
    /\ x < p_size + 1
    /\ IF InRange(vertices, n, 1)
       THEN /\ PutVertex(VAdd(Vector3(2 * x + 1, 0, 2 * (p_size + 2)), offset))
            /\ x' = x + 1
            /\ UNCHANGED <<pc, y, m, indices, iwrites>>
       ELSE Fault
    /\ UNCHANGED <<p_size, p_levels, offset, aabb,
                   arrays, mesh, tile_mesh, rs, calls>>

\* The third vertex loop ends; n is not yet reset.
HStripEnd ==
    /\ pc = "hstrip"
    /\ x >= p_size + 1
    /\ pc' = "L93" /\ x' = 0 /\ y' = 0
    /\ UNCHANGED <<p_size, p_levels, n, m, vertices, indices, vwrites,
                   iwrites, offset, aabb, arrays, mesh, tile_mesh, rs, calls>>

\* Line 93: n = 0
ResetCursor ==
    /\ pc = "L93"
    /\ n' = 0
    /\ pc' = "interior"
    /\ UNCHANGED <<p_size, p_levels, x, y, m, vertices, indices, vwrites,
                   iwrites, offset, aabb, arrays, mesh, tile_mesh, rs, calls>>

\* Mutant: the second triangle of a cell is wound the other way.
InteriorTriangles_flipped(cx, cy, S) ==
    << _patch_2d(cx, cy, S + 3),
       _patch_2d(cx + 1, cy + 1, S + 3),
       _patch_2d(cx, cy + 1, S + 3),
       _patch_2d(cx, cy, S + 3),
       _patch_2d(cx + 1, cy + 1, S + 3),
       _patch_2d(cx + 1, cy, S + 3) >>

\* Lines 96-102: the six indices of cell (cx, cy).
InteriorTriangles(cx, cy, S) ==
    << _patch_2d(cx, cy, S + 3),
       _patch_2d(cx + 1, cy + 1, S + 3),
       _patch_2d(cx, cy + 1, S + 3),
       _patch_2d(cx, cy, S + 3),
       _patch_2d(cx + 1, cy, S + 3),
       _patch_2d(cx + 1, cy + 1, S + 3) >>

\* Mutant: the middle triangle of a segment is wound the other way.
VStitchTriangles_flipped(cy, S, am) ==
    << _patch_2d(S + 1, cy, S + 3),
       _patch_2d(S + 2, cy, S + 3),
       am,
       _patch_2d(S + 1, cy, S + 3),
       _patch_2d(S + 1, cy + 1, S + 3),
       am,
       _patch_2d(S + 2, cy + 1, S + 3),
       _patch_2d(S + 1, cy + 1, S + 3),
       am >>

\* Mutant: the last triangle of a segment reaches one row too far.
VStitchTriangles_far(cy, S, am) ==
    << _patch_2d(S + 1, cy, S + 3),
       _patch_2d(S + 2, cy, S + 3),
       am,
       _patch_2d(S + 1, cy + 1, S + 3),
       _patch_2d(S + 1, cy, S + 3),
       am,
       _patch_2d(S + 2, cy + 2, S + 3),
       _patch_2d(S + 1, cy + 1, S + 3),
       am >>

\* Lines 107-117: the nine indices of segment cy, with apex counter am.
VStitchTriangles(cy, S, am) ==
    << _patch_2d(S + 1, cy, S + 3),
       _patch_2d(S + 2, cy, S + 3),
       am,
       _patch_2d(S + 1, cy + 1, S + 3),
       _patch_2d(S + 1, cy, S + 3),
       am,
       _patch_2d(S + 2, cy + 1, S + 3),
       _patch_2d(S + 1, cy + 1, S + 3),
       am >>

\* Mutant: one fixed apex for the whole side.
HStitchTriangles_fixed(cx, S, am) ==
    << _patch_2d(cx, S + 2, S + 3),
       _patch_2d(cx, S + 1, S + 3),
       (S + 3) * (S + 3) - 1,
       _patch_2d(cx, S + 1, S + 3),
       _patch_2d(cx + 1, S + 1, S + 3),
       (S + 3) * (S + 3) - 1,
       _patch_2d(cx + 1, S + 1, S + 3),
       _patch_2d(cx + 1, S + 2, S + 3),
       (S + 3) * (S + 3) - 1 >>

\* Lines 120-130: the nine indices of segment cx, with apex counter am.
HStitchTriangles(cx, S, am) ==
    << _patch_2d(cx, S + 2, S + 3),
       _patch_2d(cx, S + 1, S + 3),
       am,
       _patch_2d(cx, S + 1, S + 3),
       _patch_2d(cx + 1, S + 1, S + 3),
       am,
       _patch_2d(cx + 1, S + 1, S + 3),
       _patch_2d(cx + 1, S + 2, S + 3),
       am >>

\* Lines 94-104, one pass of the inner loop body.
InteriorCell ==
    /\ pc = "interior"
    /\ y < p_size + 1 /\ x < p_size + 1
    /\ IF InRange(indices, n, 6)
       THEN /\ PutIndices(InteriorTriangles(x, y, p_size))
            /\ x' = x + 1
            /\ UNCHANGED <<pc, y, m, vertices, vwrites>>
       ELSE Fault
    /\ UNCHANGED <<p_size, p_levels, offset, aabb,
                   arrays, mesh, tile_mesh, rs, calls>>

\* Line 95: the inner loop ends.
InteriorRowEnd ==
    /\ pc = "interior"
    /\ y < p_size + 1 /\ x >= p_size + 1
    /\ y' = y + 1 /\ x' = 0
    /\ UNCHANGED <<pc, p_size, p_levels, n, m, vertices, indices, vwrites,
                   iwrites, offset, aabb, arrays, mesh, tile_mesh, rs, calls>>

\* Line 94: the outer loop ends.
InteriorEnd ==
    /\ pc = "interior"
    /\ y >= p_size + 1
    /\ pc' = "L105" /\ x' = 0 /\ y' = 0
    /\ UNCHANGED <<p_size, p_levels, n, m, vertices, indices, vwrites,
                   iwrites, offset, aabb, arrays, mesh, tile_mesh, rs, calls>>

\* Line 105
SetApex ==
    /\ pc = "L105"
    /\ m' = ApexStart(p_size)
    /\ pc' = "vstitch"
    /\ UNCHANGED <<p_size, p_levels, n, x, y, vertices, indices, vwrites,
                   iwrites, offset, aabb, arrays, mesh, tile_mesh, rs, calls>>

\* Lines 106-118, one pass of the loop body (ends with m++).
VStitchSegment ==
    /\ pc = "vstitch"
    /\ y < p_size + 1
    /\ IF InRange(indices, n, 9)
       THEN /\ PutIndices(VStitchTriangles(y, p_size, m))
            /\ m' = m + 1
            /\ y' = y + 1
            /\ UNCHANGED <<pc, x, vertices, vwrites>>
       ELSE Fault
    /\ UNCHANGED <<p_size, p_levels, offset, aabb,
                   arrays, mesh, tile_mesh, rs, calls>>

VStitchEnd ==
    /\ pc = "vstitch"
    /\ y >= p_size + 1
    /\ pc' = "hstitch" /\ x' = 0 /\ y' = 0
    /\ UNCHANGED <<p_size, p_levels, n, m, vertices, indices, vwrites,
                   iwrites, offset, aabb, arrays, mesh, tile_mesh, rs, calls>>

\* Lines 119-131, one pass of the loop body (ends with m++).
HStitchSegment ==
    /\ pc = "hstitch"
    /\ x < p_size + 1
    /\ IF InRange(indices, n, 9)
       THEN /\ PutIndices(HStitchTriangles(x, p_size, m))
            /\ m' = m + 1
            /\ x' = x + 1
            /\ UNCHANGED <<pc, y, vertices, vwrites>>
       ELSE Fault
    /\ UNCHANGED <<p_size, p_levels, offset, aabb,
                   arrays, mesh, tile_mesh, rs, calls>>

HStitchEnd ==
    /\ pc = "hstitch"
    /\ x >= p_size + 1
    /\ pc' = "L133" /\ x' = 0 /\ y' = 0
    /\ UNCHANGED <<p_size, p_levels, n, m, vertices, indices, vwrites,
                   iwrites, offset, aabb, arrays, mesh, tile_mesh, rs, calls>>

\* Mutant: the box spans only the regular cells.
TileAABB_tight(off, S) == AABB(off, Vector3(2 * (S + 1), 2, 2 * (S + 1)))

\* AABB(offset, Vector3(p_size + 2, 1, p_size + 2)), line 133
TileAABB(off, S) == AABB(off, Vector3(2 * (S + 2), 2, 2 * (S + 2)))

\* Line 133
ComputeAABB ==
    /\ pc = "L133"
    /\ aabb' = TileAABB(offset, p_size)
    /\ pc' = "L134"
    /\ UNCHANGED <<p_size, p_levels, n, x, y, m, vertices, indices, vwrites,
                   iwrites, offset, arrays, mesh, tile_mesh, rs, calls>>

\* Lines 18-20: one Vector3(0, 1, 0) per vertex.
Normals(p_vertices) ==
    Resized(Cardinality(DOMAIN p_vertices), Vector3(0, 2, 0))

\* Lines 23-25: four 0.0f per vertex.
Tangents(p_vertices) ==
    Resized(Cardinality(DOMAIN p_vertices) * 4, 0)

\* Lines 13-26: the slots of arrays that are assigned; the others stay null.
SurfaceArrays(p_vertices, p_indices) ==
    [ARRAY_VERTEX |-> p_vertices,
     ARRAY_INDEX |-> p_indices,
     ARRAY_NORMAL |-> Normals(p_vertices),
     ARRAY_TANGENT |-> Tangents(p_vertices)]

\* Line 134 (the call) and lines 12-26 of _create_mesh.
_create_mesh ==
    /\ pc = "L134"
    /\ arrays' = SurfaceArrays(vertices, indices)
    /\ mesh' = NullRID
    /\ pc' = "L29"
    /\ UNCHANGED <<p_size, p_levels, n, x, y, m, vertices, indices, vwrites,
                   iwrites, offset, aabb, tile_mesh, rs, calls>>

\* Line 29: RID mesh = RS->mesh_create(); the server hands out a fresh RID.
MeshCreate ==
    /\ pc = "L29"
    /\ mesh' = rs_next
    /\ rs_next' = rs_next + 1
    /\ rs_log' = Append(rs_log, [op |-> "mesh_create", rid |-> rs_next])
    /\ pc' = "L30"
    /\ UNCHANGED <<p_size, p_levels, n, x, y, m, vertices, indices, vwrites,
                   iwrites, offset, aabb, arrays, tile_mesh, calls>>

\* Line 30
MeshAddSurface ==
    /\ pc = "L30"
    /\ rs_log' = Append(rs_log, [op |-> "mesh_add_surface_from_arrays",
                                 rid |-> mesh,
                                 primitive |-> "PRIMITIVE_TRIANGLES",
                                 arrays |-> arrays])
    /\ pc' = "L33"
    /\ UNCHANGED <<p_size, p_levels, n, x, y, m, vertices, indices, vwrites,
                   iwrites, offset, aabb, arrays, mesh, tile_mesh, rs_next, calls>>

\* Mutant: the box is set on generate's tile_mesh, still null at this point.
MeshSetCustomAABB_null ==
    /\ pc = "L33"
    /\ rs_log' = Append(rs_log, [op |-> "mesh_set_custom_aabb",
                                 rid |-> tile_mesh,
                                 aabb |-> aabb])
    /\ pc' = "L35"
    /\ UNCHANGED <<p_size, p_levels, n, x, y, m, vertices, indices, vwrites,
                   iwrites, offset, aabb, arrays, mesh, tile_mesh, rs_next, calls>>

\* Line 33
MeshSetCustomAABB ==
    /\ pc = "L33"
    /\ rs_log' = Append(rs_log, [op |-> "mesh_set_custom_aabb",
                                 rid |-> mesh,
                                 aabb |-> aabb])
    /\ pc' = "L35"
    /\ UNCHANGED <<p_size, p_levels, n, x, y, m, vertices, indices, vwrites,
                   iwrites, offset, aabb, arrays, mesh, tile_mesh, rs_next, calls>>

\* Line 35 and the assignment of line 134: tile_mesh = _create_mesh(...)
ReturnMesh ==
    /\ pc = "L35"
    /\ tile_mesh' = mesh
    /\ arrays' = <<>>
    /\ mesh' = NullRID
    /\ pc' = "L137"
    /\ UNCHANGED <<p_size, p_levels, n, x, y, m, vertices, indices, vwrites,
                   iwrites, offset, aabb, rs, calls>>

\* Mutant: one entry per level.
Meshes_perLevel(tm, L) == [i \in 1 .. L |-> tm]

\* Lines 137-139: Vector<RID> meshes = { tile_mesh }; p_levels (L) is in
\* scope and not used.
Meshes(tm, L) == <<tm>>

\* Lines 137-141: the call returns meshes and its locals go out of scope.
Return ==
    /\ pc = "L137"
    /\ calls' = Append(calls, [size |-> p_size, levels |-> p_levels,
                               meshes |-> Meshes(tile_mesh, p_levels)])
    /\ pc' = "idle"
    /\ p_size' = 0 /\ p_levels' = 0
    /\ n' = 0 /\ x' = 0 /\ y' = 0 /\ m' = 0
    /\ vertices' = <<>> /\ indices' = <<>>
    /\ vwrites' = <<>> /\ iwrites' = <<>>
    /\ offset' = Vector3(0, 0, 0)
    /\ aabb' = AABB(Vector3(0, 0, 0), Vector3(0, 0, 0))
    /\ tile_mesh' = NullRID
    /\ UNCHANGED <<arrays, mesh, rs>>

Next ==
    \/ generate
    \/ GridVertex
    \/ GridRowEnd
    \/ GridEnd
    \/ VStripVertex
    \/ VStripEnd
    \/ HStripVertex
    \/ HStripEnd
    \/ ResetCursor
    \/ InteriorCell
    \/ InteriorRowEnd
    \/ InteriorEnd
    \/ SetApex
    \/ VStitchSegment
    \/ VStitchEnd
    \/ HStitchSegment
    \/ HStitchEnd
    \/ ComputeAABB
    \/ _create_mesh
    \/ MeshCreate
    \/ MeshAddSurface
    \/ MeshSetCustomAABB
    \/ ReturnMesh
    \/ Return

Spec == Init /\ [][Next]_vars
----------------------------------------------------------------------------
\* Reading the buffers of the running call

InCall == pc \notin {"idle", "fault"}

VerticesDone ==
    pc \in {"L93", "interior", "L105", "vstitch", "hstitch", "L133", "L134",
            "L29", "L30", "L33", "L35", "L137"}

IndicesDone == pc \in {"L133", "L134", "L29", "L30", "L33", "L35", "L137"}

VLen == Cardinality(DOMAIN vertices)
ILen == Cardinality(DOMAIN indices)

\* The three indices of triangle t of an index buffer, in stored order.
TriOf(buf, t) == <<buf[3 * t], buf[3 * t + 1], buf[3 * t + 2]>>
Tri(t) == TriOf(indices, t)

\* Position of grid point (gx, gy) and of the strip vertices of segment k.
GridPos(gx, gy) == VAdd(Vector3(2 * gx, 0, 2 * gy), Offset(p_size))
VStripPos(k) == VAdd(Vector3(2 * (p_size + 2), 0, 2 * k + 1), Offset(p_size))
HStripPos(k) == VAdd(Vector3(2 * k + 1, 0, 2 * (p_size + 2)), Offset(p_size))

\* Y component of (p1 - p0) x (p2 - p0).
CrossY(p0, p1, p2) ==
    (p1.z - p0.z) * (p2.x - p0.x) - (p1.x - p0.x) * (p2.z - p0.z)

TriCrossY(t) ==
    CrossY(vertices[Tri(t)[1]], vertices[Tri(t)[2]], vertices[Tri(t)[3]])

\* Number of slots the grid loop fills, and of interior triangles.
GridSlots == (p_size + 3) * (p_size + 3) - 1
InteriorTris == 2 * (p_size + 1) * (p_size + 1)

----------------------------------------------------------------------------
\* C1: the vertex buffer has (S+3)^2 - 1 + 2(S+1) slots, the index buffer
\* 6(S+1)^2 + 18(S+1) slots (a multiple of 3); the cursor n equals the buffer
\* length after the three vertex loops and again after the three index loops;
\* every slot has then been assigned exactly once and no assignment fell
\* outside its buffer; S = 2 gives 30 vertices and 108 indices.
C1_SizesAndCursor ==
    /\ pc # "fault"
    /\ InCall =>
        /\ DOMAIN vertices = 0 .. (p_size + 3) * (p_size + 3) - 1 + 2 * (p_size + 1) - 1
        /\ DOMAIN indices =
              0 .. 6 * (p_size + 1) * (p_size + 1) + 18 * (p_size + 1) - 1
        /\ ILen % 3 = 0
        /\ p_size = 2 => VLen = 30 /\ ILen = 108
    /\ pc = "L93" => n = VLen
    /\ VerticesDone => \A i \in DOMAIN vwrites : vwrites[i] = 1
    /\ pc = "L133" => n = ILen
    /\ IndicesDone => \A i \in DOMAIN iwrites : iwrites[i] = 1

C1_Witness ==
    /\ pc = "L133" /\ p_size = 2 /\ n = 108 /\ VLen = 30
    /\ \A i \in DOMAIN iwrites : iwrites[i] = 1

\* C2: every value stored in the index buffer (interior, both stitch loops,
\* every value of the apex counter m) lies in [0, vertexCount) with
\* vertexCount = (S+3)^2 - 1 + 2(S+1), and names a vertex slot that the
\* vertex loops have written.
C2_IndicesInRange ==
    InCall =>
        \A i \in DOMAIN indices :
            iwrites[i] >= 1 =>
                /\ indices[i] >= 0
                /\ indices[i] < (p_size + 3) * (p_size + 3) - 1 + 2 * (p_size + 1)
                /\ indices[i] \in DOMAIN vwrites
                /\ vwrites[indices[i]] >= 1

C2_Witness ==
    /\ pc = "L133" /\ p_size = 2
    /\ \E i \in DOMAIN indices : indices[i] = VLen - 1
    /\ \E i \in DOMAIN indices : indices[i] = 0
\* Interior triangle t has its three vertices on the corners of cell (cx, cy).
TriInCell(t, cx, cy) ==
    \A k \in 1 .. 3 :
        vertices[Tri(t)[k]] \in
            {GridPos(cx + i, cy + j) : i \in {0, 1}, j \in {0, 1}}

\* After the interior loop (n counts the indices it stored): two triangles on
\* each cell of [0,S]x[0,S], none on any other cell of the grid.
TwoTrianglesPerCell ==
    /\ n = 3 * InteriorTris
    /\ \A cx \in 0 .. p_size + 1, cy \in 0 .. p_size + 1 :
          Cardinality({t \in 0 .. (n \div 3) - 1 : TriInCell(t, cx, cy)})
              = IF cx <= p_size /\ cy <= p_size THEN 2 ELSE 0
    /\ \A t \in 0 .. (n \div 3) - 1 :
          \E cx \in 0 .. p_size, cy \in 0 .. p_size : TriInCell(t, cx, cy)

\* C3 (as stated): the interior triangulation emits exactly two triangles per
\* cell of [0,S]x[0,S] and none elsewhere, and every interior triangle
\* (v0,v1,v2) has (v1-v0) x (v2-v0) with a positive Y component.
C3_Original ==
    pc = "L105" =>
        /\ TwoTrianglesPerCell
        /\ \A t \in 0 .. (n \div 3) - 1 : TriCrossY(t) > 0

\* C3 (amended): the interior triangulation emits exactly two triangles per
\* cell of [0,S]x[0,S] and none elsewhere, and every interior triangle
\* (v0,v1,v2) has (v1-v0) x (v2-v0) with a negative Y component (-1 in grid
\* units, -4 in squared half units): clockwise seen from +Y, the same sign for
\* all interior triangles.
C3_Amended ==
    pc = "L105" =>
        /\ TwoTrianglesPerCell
        /\ \A t \in 0 .. (n \div 3) - 1 : TriCrossY(t) = -4

C3_Witness ==
    /\ pc = "L105" /\ p_size = 2 /\ n = 54
    /\ TriCrossY(0) < 0 /\ TriCrossY(17) < 0

\* The apex (third index) of stitch triangle j (0, 1, 2) of segment k.
VApex(k) == [j \in 0 .. 2 |-> Tri(InteriorTris + 3 * k + j)[3]]
HApex(k) == [j \in 0 .. 2 |-> Tri(InteriorTris + 3 * (p_size + 1) + 3 * k + j)[3]]

\* C4 (as stated): on each stitch side the apex (third index of every stitch
\* triple) is one and the same for all S+1 segments of the side, and it is
\* the last regular-grid vertex (read generously: the last slot the grid loop
\* writes, or the slot the skipped corner would have had).
C4_Original ==
    IndicesDone =>
        \A k \in 0 .. p_size, j \in 0 .. 2 :
            /\ VApex(k)[j] = VApex(0)[0]
            /\ HApex(k)[j] = HApex(0)[0]
            /\ VApex(k)[j] \in {GridSlots - 1, GridSlots}
            /\ HApex(k)[j] \in {GridSlots - 1, GridSlots}

\* C4 (amended): on each stitch side the three triangles of one segment share
\* one apex index, and the apex moves by one per segment: segment k of the
\* vertical side uses slot (S+3)^2 - 1 + k, segment k of the horizontal side
\* uses slot (S+3)^2 - 1 + (S+1) + k. These are the strip vertices, not
\* regular-grid vertices, and no two segments share an apex.
C4_Amended ==
    IndicesDone =>
        /\ \A k \in 0 .. p_size, j \in 0 .. 2 :
            /\ VApex(k)[j] = (p_size + 3) * (p_size + 3) - 1 + k
            /\ HApex(k)[j] = (p_size + 3) * (p_size + 3) - 1 + (p_size + 1) + k
            /\ vertices[VApex(k)[j]] = VStripPos(k)
            /\ vertices[HApex(k)[j]] = HStripPos(k)
        /\ \A k1 \in 0 .. p_size, k2 \in 0 .. p_size :
            /\ k1 # k2 => VApex(k1)[0] # VApex(k2)[0] /\ HApex(k1)[0] # HApex(k2)[0]
            /\ VApex(k1)[0] # HApex(k2)[0]

C4_Witness ==
    /\ pc = "L133" /\ p_size = 2
    /\ VApex(0)[0] = 24 /\ VApex(2)[2] = 26
    /\ HApex(0)[0] = 27 /\ HApex(2)[2] = 29

\* C5 (as stated): S = 0 gives 10 vertices and 24 indices forming 8
\* triangles, all of them stitch triangles: the interior-cell loop emits no
\* triangle.
C5_Original ==
    /\ (InCall /\ p_size = 0) => VLen = 10 /\ ILen = 24 /\ ILen \div 3 = 8
    /\ (pc = "L105" /\ p_size = 0) => n = 0

\* C5 (amended): S = 0 gives 10 vertices and 24 indices forming 8 triangles:
\* the interior-cell loop emits the two triangles of the single cell (0,0),
\* and the two stitch loops emit three triangles each.
C5_Amended ==
    /\ (InCall /\ p_size = 0) => VLen = 10 /\ ILen = 24 /\ ILen \div 3 = 8
    /\ (pc = "L105" /\ p_size = 0) =>
          n = 6 /\ TriInCell(0, 0, 0) /\ TriInCell(1, 0, 0)
    /\ (pc = "hstitch" /\ p_size = 0 /\ x = 0) => n = 6 + 9
    /\ (pc = "L133" /\ p_size = 0) => n = 6 + 9 + 9

C5_Witness == pc = "L133" /\ p_size = 0 /\ n = 24 /\ VLen = 10

\* C6: the AABB handed to the backend has position (-S/2 - 1, 0, -S/2 - 1),
\* equal to the vertex offset, and size (S+2, 1, S+2); every vertex position
\* lies inside the box, and the least and greatest X and Z of the vertices
\* are the box's X and Z bounds (all in half units).
AABBComputed == pc \in {"L134", "L29", "L30", "L33", "L35", "L137"}

C6_AABB ==
    AABBComputed =>
        /\ aabb.position = offset
        /\ aabb.position = [x |-> -p_size - 2, y |-> 0, z |-> -p_size - 2]
        /\ aabb.size = [x |-> 2 * (p_size + 2), y |-> 2, z |-> 2 * (p_size + 2)]
        /\ \A i \in DOMAIN vertices :
            /\ vertices[i].x >= aabb.position.x
            /\ vertices[i].x <= aabb.position.x + aabb.size.x
            /\ vertices[i].y >= aabb.position.y
            /\ vertices[i].y <= aabb.position.y + aabb.size.y
            /\ vertices[i].z >= aabb.position.z
            /\ vertices[i].z <= aabb.position.z + aabb.size.z
        /\ \E i \in DOMAIN vertices : vertices[i].x = aabb.position.x
        /\ \E i \in DOMAIN vertices : vertices[i].x = aabb.position.x + aabb.size.x
        /\ \E i \in DOMAIN vertices : vertices[i].z = aabb.position.z
        /\ \E i \in DOMAIN vertices : vertices[i].z = aabb.position.z + aabb.size.z

C6_Witness ==
    /\ pc = "L134" /\ p_size = 3
    /\ aabb.position.x = -5 /\ aabb.size.x = 10
    /\ \E i \in DOMAIN vertices : vertices[i].x = 5 /\ vertices[i].z = 2
----------------------------------------------------------------------------
\* Reading what the rendering server received

\* The surface and the box the server holds for mesh r.
SurfacesOf(r) ==
    {k \in DOMAIN rs_log :
        rs_log[k].op = "mesh_add_surface_from_arrays" /\ rs_log[k].rid = r}
BoxesOf(r) ==
    {k \in DOMAIN rs_log :
        rs_log[k].op = "mesh_set_custom_aabb" /\ rs_log[k].rid = r}

HasContent(r) == Cardinality(SurfacesOf(r)) = 1 /\ Cardinality(BoxesOf(r)) = 1
SurfaceOf(r) == rs_log[CHOOSE k \in SurfacesOf(r) : TRUE].arrays
BoxOf(r) == rs_log[CHOOSE k \in BoxesOf(r) : TRUE].aabb

\* C7: for every size S and any two level counts L1, L2, generate(S, L1) and
\* generate(S, L2) each return exactly one mesh handle and submit identical
\* vertex, index and AABB content: levels influences neither the number nor
\* the shape of the meshes.
C7_LevelsIgnored ==
    /\ \A c \in DOMAIN calls :
          Len(calls[c].meshes) = 1 /\ HasContent(calls[c].meshes[1])
    /\ \A c \in DOMAIN calls, d \in DOMAIN calls :
          calls[c].size = calls[d].size =>
              /\ Len(calls[c].meshes) = Len(calls[d].meshes)
              /\ SurfaceOf(calls[c].meshes[1]).ARRAY_VERTEX
                    = SurfaceOf(calls[d].meshes[1]).ARRAY_VERTEX
              /\ SurfaceOf(calls[c].meshes[1]).ARRAY_INDEX
                    = SurfaceOf(calls[d].meshes[1]).ARRAY_INDEX
              /\ BoxOf(calls[c].meshes[1]) = BoxOf(calls[d].meshes[1])

C7_Witness ==
    /\ Len(calls) = 2
    /\ calls[1].size = 2 /\ calls[2].size = 2
    /\ calls[1].levels = 1 /\ calls[2].levels = 2
    /\ HasContent(calls[2].meshes[1])

\* C8: every generate call makes exactly one backend mesh: one mesh_create,
\* then one add-surface, then one set-custom-AABB, in that order and all on
\* the handle the call returns; handles of different calls are pairwise
\* distinct; two calls with the same (size, levels) submitted the same
\* vertex, index, normal, tangent and AABB content.
C8_OneMeshPerCall ==
    /\ pc = "idle" => Len(rs_log) = 3 * Len(calls)
    /\ Len(rs_log) <= 3 * Len(calls) + 3
    /\ \A k \in DOMAIN rs_log :
          /\ rs_log[k].op =
                CASE k % 3 = 1 -> "mesh_create"
                  [] k % 3 = 2 -> "mesh_add_surface_from_arrays"
                  [] OTHER -> "mesh_set_custom_aabb"
          /\ rs_log[k].rid = rs_log[k - ((k - 1) % 3)].rid
          /\ rs_log[k].rid # NullRID
    /\ \A c \in DOMAIN calls :
          /\ calls[c].meshes = <<rs_log[3 * c].rid>>
          /\ rs_log[3 * c - 1].primitive = "PRIMITIVE_TRIANGLES"
    /\ \A c \in DOMAIN calls, d \in DOMAIN calls :
          /\ c # d => calls[c].meshes[1] # calls[d].meshes[1]
          /\ (calls[c].size = calls[d].size /\ calls[c].levels = calls[d].levels) =>
                /\ rs_log[3 * c - 1].arrays = rs_log[3 * d - 1].arrays
                /\ rs_log[3 * c].aabb = rs_log[3 * d].aabb
    /\ \A k \in DOMAIN rs_log :
          k % 3 = 2 =>
              /\ DOMAIN rs_log[k].arrays.ARRAY_NORMAL = DOMAIN rs_log[k].arrays.ARRAY_VERTEX
              /\ \A i \in DOMAIN rs_log[k].arrays.ARRAY_NORMAL :
                    rs_log[k].arrays.ARRAY_NORMAL[i] = [x |-> 0, y |-> 2, z |-> 0]
              /\ Cardinality(DOMAIN rs_log[k].arrays.ARRAY_TANGENT)
                    = 4 * Cardinality(DOMAIN rs_log[k].arrays.ARRAY_VERTEX)
              /\ \A i \in DOMAIN rs_log[k].arrays.ARRAY_TANGENT :
                    rs_log[k].arrays.ARRAY_TANGENT[i] = 0

C8_Witness ==
    /\ pc = "idle" /\ Len(calls) = 2 /\ Len(rs_log) = 6
    /\ calls[1].size = 1 /\ calls[2].size = 1
    /\ calls[1].levels = 2 /\ calls[2].levels = 2
    /\ calls[1].meshes # calls[2].meshes

\* Slots of the grid points around vertical segment k / horizontal segment k,
\* found by position.
SlotsAt(ps) == {i \in 0 .. GridSlots - 1 : vertices[i] \in ps}
VEdgeSlots(k) ==
    SlotsAt({GridPos(p_size + 1, k), GridPos(p_size + 2, k),
             GridPos(p_size + 1, k + 1), GridPos(p_size + 2, k + 1)})
HEdgeSlots(k) ==
    SlotsAt({GridPos(k, p_size + 1), GridPos(k, p_size + 2),
             GridPos(k + 1, p_size + 1), GridPos(k + 1, p_size + 2)})

VTri(k, j) == Tri(InteriorTris + 3 * k + j)
HTri(k, j) == Tri(InteriorTris + 3 * (p_size + 1) + 3 * k + j)

\* C9: for every segment k in 0..S, the three triangles of vertical segment k
\* take their first two indices from the grid vertices (S+1,k), (S+2,k),
\* (S+1,k+1), (S+2,k+1) and their third index is the slot of the strip vertex
\* (S+2, 0, k+0.5)+offset; the three triangles of horizontal segment k take
\* their first two indices from (k,S+1), (k,S+2), (k+1,S+1), (k+1,S+2) and
\* their third is the slot of the strip vertex (k+0.5, 0, S+2)+offset. The
\* corner grid position (S+2,S+2) is in no slot, and its would-be slot
\* (S+3)^2 - 1 is never used as a grid vertex.
C9_StitchReferences ==
    IndicesDone =>
        /\ ILen = 3 * (InteriorTris + 6 * (p_size + 1))
        /\ \A k \in 0 .. p_size, j \in 0 .. 2 :
            /\ VTri(k, j)[1] \in VEdgeSlots(k)
            /\ VTri(k, j)[2] \in VEdgeSlots(k)
            /\ VTri(k, j)[3] >= GridSlots
            /\ vertices[VTri(k, j)[3]] = VStripPos(k)
            /\ HTri(k, j)[1] \in HEdgeSlots(k)
            /\ HTri(k, j)[2] \in HEdgeSlots(k)
            /\ HTri(k, j)[3] >= GridSlots
            /\ vertices[HTri(k, j)[3]] = HStripPos(k)
        /\ \A i \in DOMAIN vertices : vertices[i] # GridPos(p_size + 2, p_size + 2)
        /\ \A t \in 0 .. (ILen \div 3) - 1 :
            /\ Tri(t)[1] # GridSlots /\ Tri(t)[2] # GridSlots
            /\ t < InteriorTris => Tri(t)[3] # GridSlots

C9_Witness ==
    /\ pc = "L133" /\ p_size = 2
    /\ vertices[VTri(2, 2)[1]] = GridPos(4, 3)
    /\ vertices[HTri(2, 2)[2]] = GridPos(3, 4)
    /\ vertices[HTri(1, 0)[3]] = HStripPos(1)

\* The directed edges of triangle t.
Edges(t) ==
    {<<Tri(t)[1], Tri(t)[2]>>, <<Tri(t)[2], Tri(t)[3]>>, <<Tri(t)[3], Tri(t)[1]>>}

AllTris == 0 .. (ILen \div 3) - 1

\* C10: the full index list is a consistently oriented triangle mesh: every
\* triangle has three distinct vertices and non-zero area, all triangles have
\* the same orientation sign, each directed edge occurs in at most one
\* triangle (the 3T directed edges of the T triangles are 3T different
\* pairs), every vertex slot is referenced by some triangle, and no two
\* vertex slots hold the same position.
C10_ConsistentMesh ==
    IndicesDone =>
        /\ \A t \in AllTris :
            /\ Cardinality({Tri(t)[1], Tri(t)[2], Tri(t)[3]}) = 3
            /\ TriCrossY(t) # 0
            /\ (TriCrossY(t) > 0) = (TriCrossY(0) > 0)
        /\ Cardinality(UNION {Edges(t) : t \in AllTris}) = 3 * Cardinality(AllTris)
        /\ {indices[j] : j \in DOMAIN indices} = DOMAIN vertices
        /\ Cardinality({vertices[i] : i \in DOMAIN vertices}) = VLen

C10_Witness ==
    /\ pc = "L133" /\ p_size = 3
    /\ \E t \in AllTris, u \in AllTris :
          /\ t < InteriorTris /\ u >= InteriorTris
          /\ \E e \in Edges(t) : <<e[2], e[1]>> \in Edges(u)
====
